---- MODULE Spec2Model ----
(***************************************************************************)
(* OpenAIWrapperClass (src/openAIwrapper.class.ts): the prompt-execution   *)
(* state machine.  One instance of the class, one caller, the model        *)
(* transport and the caller-supplied tool handlers.                        *)
(*                                                                         *)
(* JavaScript runs every piece of synchronous code to completion, then the *)
(* queued promise continuations (microtasks) in FIFO order, and only then  *)
(* the next external event (a transport reply, a stream chunk, a handler's *)
(* promise settling, a timer that calls abortStream).  The model keeps     *)
(* that queue explicitly: `microtasks`.                                    *)
(***************************************************************************)
EXTENDS Integers, Sequences, FiniteSets, TLC

\* ------------------------------------------------------------------ bounds
MaxCalls == 2        \* runPrompt / runPromptStream invocations in one run
MaxToolCalls == 3    \* tool calls the transport asks for in one run
MaxFragments == 2    \* chunks of one stream
MaxMessages == 3     \* length up to which the caller appends by hand
MaxTools == 3        \* declarations the caller registers

\* ------------------------------------------------------------- value space
\* JavaScript's undefined, as a record so that it compares with every value
\* the model stores in the same slot.
Undefined == [undefined |-> TRUE]

\* Tool names the transport may put in a tool call, the names the caller
\* declares tools for, and the handlers the caller owns.
ToolNames == {"f", "g"}
Declared == {"f"}
Handlers == {[handler |-> "h"]}
OtherHandlers == {[handler |-> "i"]}
Descriptions == {"d", "e"}

\* How a handler behaves on one invocation: it returns a value, it returns a
\* promise that settles later, or it throws.
Behaviours == {"sync", "async", "throw"}

\* The chunks of a stream: chunk.choices[0]?.delta?.content is a string, or
\* the chunk carries none.
Chunks == {[content |-> "Hel"], [content |-> "lo"], [finish_reason |-> "stop"]}

UserMessage == [role |-> "user", content |-> "u"]
SystemMessage == [role |-> "system", content |-> "s"]

\* Values of the temperature and of the token limit, stored or per call; a
\* limit is a record so that it compares with undefined.
Temperatures == {0, 1}
TokenLimits == {[tokens |-> 16]}

VARIABLES
  messages,               \* this.messages
  tools,                  \* this.tools, by function name
  toolFunctionmap,        \* this.toolFunctionmap
  streamAbortController,  \* this.streamAbortController
  threadCount,            \* this.threadCount
  receivedCompletions,    \* this.receivedCompletions
  lastResponse,           \* this.lastResponse
  needsToolRun,           \* this._needsToolRun
  streamCallbackFn,       \* this.streamCallbackFn is set
  temperature,            \* this.temperature
  max_tokens,             \* this.max_tokens
  json,                   \* the string of the last toJSON(), held by the caller
  subclass,               \* the class the instance was constructed from
  pc,                     \* the caller: "idle", "awaitPrompt", "awaitStream"
  request,                \* the request handed to the transport, while in flight
  stream,                 \* the open stream of runPromptStream
  tasks,                  \* the async callbacks of response.choices.forEach
  microtasks,             \* queued promise continuations
  settled,                \* how the promise of the last run call settled
  obs                     \* what an observer of the run has seen

vars == << messages, tools, toolFunctionmap, streamAbortController, threadCount,
           receivedCompletions, lastResponse, needsToolRun, streamCallbackFn,
           temperature, max_tokens, json, subclass,
           pc, request, stream, tasks, microtasks, settled, obs >>

\* --------------------------------------------------------------- transport
\* JSON.parse(toolCall.function.arguments): the arguments the model supplies
\* follow the parameters the tool declares; those of f are the ones of the
\* weather example (app.tsx), g has a parameter of its own.
ArgumentsOf(name) ==
  IF name = "f" THEN [location |-> "sf", unit |-> "celsius"] ELSE [city |-> "paris"]

\* A tool call as the model emits it; its id is its place in the run.
ToolCall(id, name) == [id |-> id, name |-> name, arguments |-> ArgumentsOf(name)]

\* choice.message of a completion: tool_calls is absent, or a list.
PlainMessage(content) == [role |-> "assistant", content |-> content]
CallingMessage(content, calls) ==
  [role |-> "assistant", content |-> content, tool_calls |-> calls]

HasToolCalls(m) == "tool_calls" \in DOMAIN m
CallsOf(m) == IF HasToolCalls(m) THEN m.tool_calls ELSE << >>

\* The lists of n tool-call names.
RECURSIVE NameLists(_)
NameLists(n) ==
  IF n = 0 THEN { << >> }
  ELSE { Append(l, x) : l \in NameLists(n - 1), x \in ToolNames }

\* The tool calls of choice i of completion c, named by `names`.
CallsNamed(c, i, names) ==
  [k \in 1..Len(names) |-> ToolCall(<< c, i, k >>, names[k])]

\* The messages choice i of completion c may carry when at most n tool calls
\* are left to hand out.
ChoiceMessages(c, i, n) ==
  { PlainMessage("a") } \cup
  { CallingMessage("a", CallsNamed(c, i, names)) :
      names \in UNION { NameLists(j) : j \in 0..n } }

RECURSIVE SumCalls(_)
SumCalls(ms) == IF ms = << >> THEN 0 ELSE Len(CallsOf(Head(ms))) + SumCalls(Tail(ms))

\* response.usage of a completion.
Usages == { [prompt_tokens |-> 10, completion_tokens |-> 5, total_tokens |-> 15] }

\* The number of choices a request may ask for (modelOptions.n; 1 when the
\* option is left out).  The caller asks for two in its first call only.
ChoiceCounts(call) == IF call = 1 THEN {1, 2} ELSE {1}

\* The completions the transport may return to call c, which asked for
\* `choices` choices, when at most n tool calls are left to hand out: one
\* choice with up to n tool calls, or two with at most one tool call each.
RECURSIVE ChoiceLists(_, _, _)
ChoiceLists(c, len, n) ==
  IF len = 0 THEN { << >> }
  ELSE { Append(l, m) : l \in ChoiceLists(c, len - 1, n),
                        m \in ChoiceMessages(c, len, n) }

Completions(c, choices, n) ==
  { [id |-> c, choices |-> l, usage |-> u] :
      l \in { x \in ChoiceLists(c, choices, IF choices > 1 /\ n > 0 THEN 1 ELSE n) :
                SumCalls(x) <= n },
      u \in Usages }

\* A completion whose one choice is a plain message; its usage may be
\* missing.
PlainCompletions(c) ==
  { [id |-> c, choices |-> << PlainMessage("a") >>, usage |-> u] :
      u \in Usages \cup { Undefined } }

\* What a completion reports of a counter: nothing without a usage.
UsageOf(response, counter) ==
  IF response.usage = Undefined THEN 0 ELSE response.usage[counter]

\* The completions to call c whose one choice carries one tool call.
SingleCalls(c) ==
  { [id |-> c, choices |-> << CallingMessage("a", CallsNamed(c, 1, << name >>)) >>,
     usage |-> u] : name \in ToolNames, u \in Usages }

\* ------------------------------------------------------------ the instance
\* A tool as the caller declares it: a FunctionDefinition, or the
\* ChatCompletionTool makeChatToolFunction wraps it in.
FunctionDefinition(name, description) == [name |-> name, description |-> description]

makeChatToolFunction(name, description) ==
  [type |-> "function", function |-> FunctionDefinition(name, description)]

Declarations(names) ==
  { FunctionDefinition(n, d) : n \in names, d \in Descriptions }
    \cup { makeChatToolFunction(n, d) : n \in names, d \in Descriptions }

\* hasOwn(chatToolFunction, "type")
HasType(chatToolFunction) == "type" \in DOMAIN chatToolFunction

\* addTool: a FunctionDefinition is wrapped, and the tool is pushed.
addTool(list, chatToolFunction) ==
  IF ~HasType(chatToolFunction)
  THEN Append(list, [type |-> "function", function |-> chatToolFunction])
  ELSE Append(list, chatToolFunction)

\* The name addToolWithFunction binds the handler under.
NameOf(chatToolFunction) ==
  IF HasType(chatToolFunction) THEN chatToolFunction.function.name
  ELSE chatToolFunction.name

\* A handler bound only under a name that has none.
SetToolFunctionOnce(map, name, toolFunctionInJS) ==
  IF map[name] = Undefined THEN [map EXCEPT ![name] = toolFunctionInJS] ELSE map

\* setToolFunction: this.toolFunctionmap[name] = toolFunctionInJS
setToolFunction(map, name, toolFunctionInJS) == [map EXCEPT ![name] = toolFunctionInJS]

\* The names of the tools of a list.
NamesIn(list) == { list[i].function.name : i \in DOMAIN list }
\* The new messages added unless the last message is already the same.
AddMessagesUnlessRepeated(msgs, new) ==
  IF msgs # << >> /\ new # << >> /\ msgs[Len(msgs)] = new[1] THEN msgs ELSE msgs \o new

\* The new messages put in front of the old ones.
AddMessagesInFront(msgs, new) == new \o msgs

\* The classes: the plain one and the two that extend it.
Plain == "OpenAIWrapperClass"
RXJS == "OpenAIWrapperRXJSClass"
Signal == "OpenAIWrapperSignalClass"

\* OpenAIWrapperClass._addmessages: this.messages = [...this.messages, ...messages]
super_addmessages(msgs, new) == msgs \o new

\* this._addmessages as the instance dispatches it.  OpenAIWrapperRXJSClass
\* calls super._addmessages(messages) and then assigns
\* this.messages.concat(messages); OpenAIWrapperSignalClass calls
\* super._addmessages(messages) only.
_addmessages(msgs, new) ==
  IF subclass = RXJS THEN super_addmessages(msgs, new) \o new
  ELSE super_addmessages(msgs, new)

\* The counters set to the usage of the last completion.
UpdateThreadCountToLast(count, response) ==
  IF response.usage = Undefined THEN count
  ELSE [count EXCEPT
          !.prompt_tokens = response.usage.prompt_tokens,
          !.completion_tokens = response.usage.completion_tokens,
          !.total_tokens = response.usage.total_tokens]

\* _updateThreadCount: the usage of a completion is added when it is reported.
_updateThreadCount(count, response) ==
  IF response.usage = Undefined THEN count
  ELSE [count EXCEPT
          !.prompt_tokens = @ + response.usage.prompt_tokens,
          !.completion_tokens = @ + response.usage.completion_tokens,
          !.total_tokens = @ + response.usage.total_tokens]

\* The tool-result message runPrompt appends for a tool call.
ToolMessage(call, value) ==
  [tool_call_id |-> call.id, role |-> "tool", name |-> call.name, content |-> value]

\* The value handler fn returns.
ReturnOf(fn) == [returned_by |-> fn]

\* What runPrompt's synchronous code and the callbacks of forEach work on.
Frame ==
  [messages |-> messages, tasks |-> tasks, microtasks |-> microtasks,
   threadCount |-> threadCount, needsToolRun |-> needsToolRun, trace |-> obs.trace]

Event(e, id) == [e |-> e, id |-> id]

\* functionToCall(functionArgs.location, functionArgs.unit): what the handler
\* is given of the parsed arguments; a field the arguments do not have is
\* passed as undefined.
Passed(functionArgs) ==
  [key \in {"location", "unit"} \cap DOMAIN functionArgs |-> functionArgs[key]]

\* `await functionToCall(...)` for the tool call task t is at: the handler
\* runs up to its return.  beh is how it behaves this time.  A throw rejects
\* the promise of the forEach callback, which nobody holds.
Invoke(s, t, functionToCall, beh) ==
  LET call == s.tasks[t].calls[s.tasks[t].k]
      invoked == [s EXCEPT !.tasks[t].fn = functionToCall,
                           !.tasks[t].given = [k |-> s.tasks[t].k,
                                               args |-> Passed(call.arguments)],
                           !.trace = Append(@, Event("invoke", call.id))]
  IN  CASE beh = "throw" ->
             [invoked EXCEPT !.tasks[t].status = "failed",
                             !.tasks[t].error = "handler"]
        [] beh = "sync" ->
             [invoked EXCEPT !.tasks[t].status = "queued",
                             !.microtasks = Append(@, [kind |-> "task", t |-> t])]
        [] OTHER ->
             [invoked EXCEPT !.tasks[t].status = "awaiting"]

\* The same pass with an unknown tool reported and passed over, the loop
\* going on to the next tool call.
RECURSIVE IterationPastUnknown(_, _, _)
IterationPastUnknown(s, t, beh) ==
  LET task == s.tasks[t]
      call == task.calls[task.k]
      functionToCall == toolFunctionmap[call.name]
      reported == [s EXCEPT !.tasks[t].error = "is not defined",
                            !.trace = Append(@, Event("undefined", call.id))]
  IN  IF functionToCall # Undefined THEN Invoke(s, t, functionToCall, beh)
      ELSE IF task.k = Len(task.calls) THEN [reported EXCEPT !.tasks[t].status = "failed"]
      ELSE IterationPastUnknown([reported EXCEPT !.tasks[t].k = @ + 1], t, beh)

\* One pass through the body of `for (const toolCall of toolCalls)` for task
\* t, up to its await: the handler is looked up; without one the callback
\* throws, with one it is invoked.
Iteration(s, t, beh) ==
  LET task == s.tasks[t]
      call == task.calls[task.k]
      functionToCall == toolFunctionmap[call.name]
  IN  IF functionToCall = Undefined
      THEN [s EXCEPT !.tasks[t].status = "failed",
                     !.tasks[t].error = "is not defined",
                     !.trace = Append(@, Event("undefined", call.id))]
      ELSE Invoke(s, t, functionToCall, beh)

\* Task t resumes after its await: the tool result is appended and the loop
\* goes on to the next tool call, if any.
Resume(s, t, beh) ==
  LET task == s.tasks[t]
      call == task.calls[task.k]
      appended ==
        [s EXCEPT !.messages = _addmessages(@, << ToolMessage(call, ReturnOf(task.fn)) >>),
                  !.trace = Append(@, Event("result", call.id))]
  IN  IF task.k = Len(task.calls)
      THEN [appended EXCEPT !.tasks[t].status = "done"]
      ELSE Iteration([appended EXCEPT !.tasks[t].k = @ + 1], t, beh)

\* The callback of response.choices.forEach for one choice, up to its first
\* await (forEach does not wait for the promise the callback returns).
ChoiceCallback(s, message, beh) ==
  LET added == [s EXCEPT !.messages = _addmessages(@, << message >>)]
  IN  IF ~HasToolCalls(message) THEN added
      ELSE LET toolCalls == message.tool_calls
               counted == [added EXCEPT !.threadCount.tool_calls = @ + Len(toolCalls),
                                        !.needsToolRun = Len(toolCalls) > 0]
           IN  IF Len(toolCalls) = 0 THEN counted
               ELSE LET t == Len(counted.tasks) + 1
                        task == [calls |-> toolCalls, k |-> 1, status |-> "running",
                                 fn |-> Undefined, given |-> Undefined,
                                 error |-> "none"]
                    IN  Iteration([counted EXCEPT !.tasks = Append(@, task)], t, beh)

\* response.choices.forEach(async (choice) => ...): the callbacks run one
\* after the other, each up to its first await.
RECURSIVE ForEachChoice(_, _, _)
ForEachChoice(s, choices, behs) ==
  IF choices = << >> THEN s
  ELSE ForEachChoice(ChoiceCallback(s, Head(choices), Head(behs)),
                     Tail(choices), Tail(behs))

BehaviourLists(n) == [1..n -> Behaviours]

\* What a run call finds stored when it is made: the usage counters, the
\* completions received and the last response.
Held ==
  [counters |-> threadCount, completions |-> receivedCompletions, last |-> lastResponse]

\* ------------------------------------------------------------------- Init
\* The instance after construction; nothing is in flight.
Fresh ==
  /\ messages = << >>
  /\ tools = << >>
  /\ toolFunctionmap = [n \in ToolNames |-> Undefined]
  /\ streamAbortController = Undefined
  /\ threadCount = [prompt_tokens |-> 0, completion_tokens |-> 0,
                    total_tokens |-> 0, tool_calls |-> 0]
  /\ receivedCompletions = << >>
  /\ lastResponse = Undefined
  /\ needsToolRun = FALSE
  /\ streamCallbackFn = FALSE
  /\ temperature = 1
  /\ max_tokens = Undefined
  /\ json = Undefined
  /\ pc = "idle"
  /\ request = Undefined
  /\ stream = Undefined
  /\ tasks = << >>
  /\ microtasks = << >>
  /\ settled = Undefined
  /\ obs = [calls |-> 0, sent |-> 0, issued |-> 0, trace |-> << >>,
            followUp |-> FALSE, before |-> << >>, held |-> Undefined, baseLen |-> 0, sink |-> << >>,
            chunks |-> << >>, abort |-> "none", options |-> [n |-> 1],
            reported |-> [prompt_tokens |-> 0, completion_tokens |-> 0,
                          total_tokens |-> 0],
            hand |-> [op |-> "none"],
            bound |-> [n \in ToolNames |-> << >>],
            snapshot |-> Undefined, restore |-> Undefined, signals |-> << >>,
            published |-> << >>]

\* new OpenAIWrapperClass(apiKey)
Init == subclass = Plain /\ Fresh

\* new OpenAIWrapperRXJSClass(apiKey), new OpenAIWrapperSignalClass(apiKey)
InitAdapter == subclass \in {RXJS, Signal} /\ Fresh

\* ---------------------------------------------------------- builder calls
\* The caller configures the instance, then runs it (README, app.tsx).
Configuring == pc = "idle" /\ obs.calls = 0

\* addTool
AddTool(chatToolFunction) ==
  /\ Len(tools) < MaxTools
  /\ tools' = addTool(tools, chatToolFunction)
  /\ UNCHANGED obs
  /\ UNCHANGED << messages, toolFunctionmap, streamAbortController, threadCount,
                  receivedCompletions, lastResponse, needsToolRun, streamCallbackFn,
                  pc, request, stream, tasks, microtasks, settled >>
  /\ UNCHANGED << temperature, max_tokens, json, subclass >>

\* addToolWithFunction: addTool pushes the declaration, setToolFunction binds
\* the handler under the declaration's name.
AddToolWithFunction(chatToolFunction, toolFunctionInJS) ==
  /\ Len(tools) < MaxTools
  /\ tools' = addTool(tools, chatToolFunction)
  /\ toolFunctionmap' =
       setToolFunction(toolFunctionmap, NameOf(chatToolFunction), toolFunctionInJS)
  /\ obs' = [obs EXCEPT !.bound[NameOf(chatToolFunction)] = Append(@, toolFunctionInJS)]
  /\ UNCHANGED << messages, streamAbortController, threadCount, receivedCompletions,
                  lastResponse, needsToolRun, streamCallbackFn, pc, request, stream,
                  tasks, microtasks, settled >>
  /\ UNCHANGED << temperature, max_tokens, json, subclass >>

\* What the caller has done to the transcript by hand since the last run
\* call: after an append, the transcript the appends started from and the
\* messages appended since, in call order.
Appended(message) ==
  IF obs.hand.op = "append"
  THEN [obs.hand EXCEPT !.appended = Append(@, message)]
  ELSE [op |-> "append", base |-> messages, appended |-> << message >>]

\* this.messages$.next(this.messages), this.messages$.set(this.messages): the
\* value of the messages observable once _addmessages has run and left the
\* transcript `after`.  The plain class has no observable.
Published(after) == IF subclass = Plain THEN obs.published ELSE after

\* appendMessage
AppendMessage(message) ==
  /\ Len(messages) < MaxMessages
  /\ messages' = _addmessages(messages, << message >>)
  /\ obs' = [obs EXCEPT !.hand = Appended(message), !.published = Published(messages')]
  /\ UNCHANGED << tools, toolFunctionmap, streamAbortController, threadCount,
                  receivedCompletions, lastResponse, needsToolRun, streamCallbackFn,
                  pc, request, stream, tasks, microtasks, settled >>
  /\ UNCHANGED << temperature, max_tokens, json, subclass >>

\* appendUserMessage
AppendUserMessage ==
  /\ Len(messages) < MaxMessages
  /\ messages' = _addmessages(messages, << UserMessage >>)
  /\ obs' = [obs EXCEPT !.hand = Appended(UserMessage),
                        !.published = Published(messages')]
  /\ UNCHANGED << tools, toolFunctionmap, streamAbortController, threadCount,
                  receivedCompletions, lastResponse, needsToolRun, streamCallbackFn,
                  pc, request, stream, tasks, microtasks, settled >>
  /\ UNCHANGED << temperature, max_tokens, json, subclass >>

\* A setMessages that adds the new messages to the list as it is.
SetMessagesWithoutClear(new) ==
  /\ messages' = _addmessages(messages, new)
  /\ obs' = [obs EXCEPT !.hand = [op |-> "set", prior |-> messages, set |-> new],
                        !.published = Published(messages')]
  /\ UNCHANGED << tools, toolFunctionmap, streamAbortController, threadCount,
                  receivedCompletions, lastResponse, needsToolRun, streamCallbackFn,
                  pc, request, stream, tasks, microtasks, settled >>
  /\ UNCHANGED << temperature, max_tokens, json, subclass >>

\* setMessages: the list is emptied, then the new messages are added.
SetMessages(new) ==
  /\ messages' = _addmessages(<< >>, new)
  /\ obs' = [obs EXCEPT !.hand = [op |-> "set", prior |-> messages, set |-> new],
                        !.published = Published(messages')]
  /\ UNCHANGED << tools, toolFunctionmap, streamAbortController, threadCount,
                  receivedCompletions, lastResponse, needsToolRun, streamCallbackFn,
                  pc, request, stream, tasks, microtasks, settled >>
  /\ UNCHANGED << temperature, max_tokens, json, subclass >>

\* setTemperature
SetTemperature(value) ==
  /\ temperature' = value
  /\ UNCHANGED obs
  /\ UNCHANGED << messages, tools, toolFunctionmap, streamAbortController, threadCount,
                  receivedCompletions, lastResponse, needsToolRun, streamCallbackFn,
                  max_tokens, json, subclass, pc, request, stream, tasks, microtasks, settled >>

\* setMaxTokens
SetMaxTokens(value) ==
  /\ max_tokens' = value
  /\ UNCHANGED obs
  /\ UNCHANGED << messages, tools, toolFunctionmap, streamAbortController, threadCount,
                  receivedCompletions, lastResponse, needsToolRun, streamCallbackFn,
                  temperature, json, subclass, pc, request, stream, tasks, microtasks, settled >>

\* ------------------------------------------------------------ serialisation
\* { ...a, ...b }: the properties of both, those of b where both have one.
Spread(a, b) ==
  [k \in DOMAIN a \cup DOMAIN b |-> IF k \in DOMAIN b THEN b[k] ELSE a[k]]

\* JSON.stringify leaves out a property whose value is undefined or a
\* function: nothing is left of the handlers of the map.
Property(key, value) == IF value = Undefined THEN << >> ELSE [k \in {key} |-> value]

StringifiedMap(map) ==
  [n \in DOMAIN map |->
     IF map[n] \in Handlers \cup OtherHandlers THEN Undefined ELSE map[n]]

\* An AbortController has no property of its own: it comes back as {}.
StringifiedController(controller) ==
  IF controller = Undefined THEN Undefined ELSE [plain |-> "{}"]

\* toJSON followed by JSON.parse: the properties of the instance that the
\* string carries, with their values.
toJSON ==
  Spread(Spread(Spread(
    [messages |-> messages, tools |-> tools, temperature |-> temperature,
     threadCount |-> threadCount, receivedCompletions |-> receivedCompletions,
     toolFunctionmap |-> StringifiedMap(toolFunctionmap),
     _needsToolRun |-> needsToolRun],
    Property("max_tokens", max_tokens)),
    Property("lastResponse", lastResponse)),
    Property("streamAbortController", StringifiedController(streamAbortController)))

\* The caller takes a snapshot and keeps the string.
ToJSON ==
  /\ json' = toJSON
  /\ obs' = [obs EXCEPT !.snapshot =
                [messages |-> messages, tools |-> tools,
                 toolFunctionmap |-> toolFunctionmap, threadCount |-> threadCount]]
  /\ UNCHANGED << messages, tools, toolFunctionmap, streamAbortController, threadCount,
                  receivedCompletions, lastResponse, needsToolRun, streamCallbackFn,
                  temperature, max_tokens, subclass, pc, request, stream, tasks,
                  microtasks, settled >>

\* The fields of the instance the model holds, in the order of their
\* declaration: the order in which toJSON writes them.
Keys ==
  << "messages", "tools", "temperature", "streamAbortController", "max_tokens",
     "threadCount", "receivedCompletions", "toolFunctionmap", "lastResponse",
     "_needsToolRun" >>

\* hasOwn(this, key)
OwnKeys ==
  { Keys[i] : i \in DOMAIN Keys }
    \cup { "openai", "model", "json_mode", "timeout", "debug", "streamCallbackFn" }

\* The keys of the string the caller kept, as fromJSON walks them.
KeysOf(snapshot) == SelectSeq(Keys, LAMBDA key : key \in DOMAIN snapshot)

\* The keys of a string with a key that is no field of the instance written
\* after the first p keys.
WithForeignKey(keys, p) ==
  SubSeq(keys, 1, p) \o << "foreign" >> \o SubSeq(keys, p + 1, Len(keys))

\* A loop that passes over the keys the instance does not have.
RECURSIVE AssignKnownKeys(_, _)
AssignKnownKeys(keys, assigned) ==
  IF keys = << >> THEN [assigned |-> assigned, success |-> TRUE]
  ELSE IF Head(keys) \in OwnKeys
       THEN AssignKnownKeys(Tail(keys), assigned \cup { Head(keys) })
       ELSE AssignKnownKeys(Tail(keys), assigned)

\* The loop of fromJSON over the keys of the string: a key of the instance is
\* assigned, any other key ends the loop with the error outcome.
RECURSIVE AssignKeys(_, _)
AssignKeys(keys, assigned) ==
  IF keys = << >> THEN [assigned |-> assigned, success |-> TRUE]
  ELSE IF Head(keys) \in OwnKeys
       THEN AssignKeys(Tail(keys), assigned \cup { Head(keys) })
       ELSE [assigned |-> assigned, success |-> FALSE]

\* The value fromJSON leaves in a field: the one of the string when the
\* string has the key and the loop got to it, the present one otherwise.
Restored(assigned, key, present) ==
  IF key \in assigned /\ key \in DOMAIN json THEN json[key] ELSE present

\* fromJSON of a string with the values of the string the caller kept, under
\* the given keys.  The observer keeps the keys and the outcome returned.
fromJSON(keys) ==
  /\ json # Undefined
  /\ LET loop == AssignKeys(keys, {})
     IN  /\ messages' = Restored(loop.assigned, "messages", messages)
         /\ tools' = Restored(loop.assigned, "tools", tools)
         /\ temperature' = Restored(loop.assigned, "temperature", temperature)
         /\ threadCount' = Restored(loop.assigned, "threadCount", threadCount)
         /\ receivedCompletions' =
              Restored(loop.assigned, "receivedCompletions", receivedCompletions)
         /\ toolFunctionmap' = Restored(loop.assigned, "toolFunctionmap", toolFunctionmap)
         /\ needsToolRun' = Restored(loop.assigned, "_needsToolRun", needsToolRun)
         /\ max_tokens' = Restored(loop.assigned, "max_tokens", max_tokens)
         /\ lastResponse' = Restored(loop.assigned, "lastResponse", lastResponse)
         /\ streamAbortController' =
              Restored(loop.assigned, "streamAbortController", streamAbortController)
         /\ obs' = [obs EXCEPT !.hand = [op |-> "none"],
                               !.restore = [keys |-> keys, success |-> loop.success]]
  /\ UNCHANGED << streamCallbackFn, json, subclass, pc, request, stream, tasks, microtasks,
                  settled >>

\* fromJSON with the string the caller kept: every key of the string is
\* assigned.
FromJSON == json # Undefined /\ fromJSON(KeysOf(json))

\* fromJSON with a string that holds, somewhere among the keys of the string
\* the caller kept, a key that is no field of the instance.
FromJSONForeign ==
  /\ json # Undefined
  /\ \E p \in 0..Len(KeysOf(json)) : fromJSON(WithForeignKey(KeysOf(json), p))

\* ---------------------------------------------------------------- runPrompt
\* Per-call options: what the model reads of them is n.
NoOptions == [n |-> 1]

\* The per-call options a caller may pass: none, a temperature, a token
\* limit, a list of tools.
Options ==
  { NoOptions } \cup { [n |-> 1, temperature |-> t] : t \in Temperatures }
               \cup { [n |-> 1, max_tokens |-> m] : m \in TokenLimits }
               \cup { [n |-> 1, tools |-> [list |-> << makeChatToolFunction("g", "d") >>]] }

\* The request runPrompt hands to the transport: the options spread first,
\* then the fields the instance sets.
PromptRequest(modelOptions) ==
  Spread(modelOptions,
         [kind |-> "prompt", messages |-> messages, stream |-> FALSE,
          temperature |-> temperature,
          tools |-> IF Len(tools) > 0 THEN [list |-> tools] ELSE Undefined,
          max_tokens |-> max_tokens])

\* A runPrompt that keeps the temperature of its options as the stored one.
RunPromptStoringOptions(modelOptions) ==
  /\ pc = "idle"
  /\ obs.calls < MaxCalls
  /\ needsToolRun' = FALSE
  /\ request' = PromptRequest(modelOptions)
  /\ pc' = "awaitPrompt"
  /\ obs' = [obs EXCEPT !.calls = @ + 1, !.sent = @ + 1, !.followUp = FALSE,
                        !.before = messages, !.held = Held, !.options = modelOptions,
                        !.hand = [op |-> "none"], !.abort = "none"]
  /\ temperature' = IF "temperature" \in DOMAIN modelOptions
                    THEN modelOptions.temperature ELSE temperature
  /\ UNCHANGED << messages, tools, toolFunctionmap, streamAbortController,
                  threadCount, receivedCompletions, lastResponse, streamCallbackFn,
                  stream, tasks, microtasks, settled >>
  /\ UNCHANGED << max_tokens, json, subclass >>

\* runPrompt up to its await: the flag is reset and the request is built from
\* the messages and tools of this moment.
RunPrompt(modelOptions) ==
  /\ pc = "idle"
  /\ obs.calls < MaxCalls
  /\ needsToolRun' = FALSE
  /\ request' = PromptRequest(modelOptions)
  /\ pc' = "awaitPrompt"
  /\ obs' = [obs EXCEPT !.calls = @ + 1, !.sent = @ + 1, !.followUp = FALSE,
                        !.before = messages, !.held = Held, !.options = modelOptions,
                        !.hand = [op |-> "none"], !.abort = "none"]
  /\ UNCHANGED << messages, tools, toolFunctionmap, streamAbortController,
                  threadCount, receivedCompletions, lastResponse, streamCallbackFn,
                  stream, tasks, microtasks, settled >>
  /\ UNCHANGED << temperature, max_tokens, json, subclass >>

\* The transport returns a completion: runPrompt runs from its await to its
\* return, and its promise resolves.
PromptReply(response, behs) ==
  /\ request # Undefined
  /\ request.kind = "prompt"
  /\ microtasks = << >>
  /\ LET s == ForEachChoice(Frame, response.choices, behs)
     IN  /\ messages' = s.messages
         /\ tasks' = s.tasks
         /\ needsToolRun' = s.needsToolRun
         /\ threadCount' = _updateThreadCount(s.threadCount, response)
         /\ microtasks' = Append(s.microtasks, [kind |-> "caller"])
         /\ obs' = [obs EXCEPT !.trace = Append(s.trace, Event("resolve", << response.id >>)),
                               !.issued = @ + SumCalls(response.choices),
                               !.reported = [c \in DOMAIN @ |-> @[c] + UsageOf(response, c)],
                               !.published = Published(s.messages)]
  /\ receivedCompletions' = Append(receivedCompletions, response)
  /\ lastResponse' = response
  /\ settled' = [call |-> response.id, kind |-> "prompt", how |-> "resolved"]
  /\ request' = Undefined
  /\ UNCHANGED << tools, toolFunctionmap, streamAbortController, streamCallbackFn,
                  pc, stream >>
  /\ UNCHANGED << temperature, max_tokens, json, subclass >>

\* A runPrompt that hands its request to the transport again when the
\* transport has failed.
PromptFailsAndRetries ==
  /\ request # Undefined
  /\ request.kind = "prompt"
  /\ microtasks = << >>
  /\ obs' = [obs EXCEPT !.sent = @ + 1]
  /\ UNCHANGED << messages, tools, toolFunctionmap, streamAbortController,
                  threadCount, receivedCompletions, lastResponse, needsToolRun,
                  streamCallbackFn, pc, request, stream, tasks, microtasks, settled >>
  /\ UNCHANGED << temperature, max_tokens, json, subclass >>

\* The transport fails: the await in runPrompt throws and its promise rejects.
PromptFails ==
  /\ request # Undefined
  /\ request.kind = "prompt"
  /\ microtasks = << >>
  /\ settled' = [call |-> obs.calls, kind |-> "prompt", how |-> "rejected"]
  /\ microtasks' = Append(microtasks, [kind |-> "caller"])
  /\ request' = Undefined
  /\ UNCHANGED obs
  /\ UNCHANGED << messages, tools, toolFunctionmap, streamAbortController,
                  threadCount, receivedCompletions, lastResponse, needsToolRun,
                  streamCallbackFn, pc, stream, tasks >>
  /\ UNCHANGED << temperature, max_tokens, json, subclass >>

\* What a callback of forEach leaves behind when it has run on.
Landed(s) ==
  /\ messages' = s.messages
  /\ tasks' = s.tasks
  /\ microtasks' = s.microtasks
  /\ obs' = [obs EXCEPT !.trace = s.trace,
                        !.published = IF s.messages = messages THEN @
                                      ELSE Published(s.messages)]
  /\ UNCHANGED << tools, toolFunctionmap, streamAbortController, threadCount,
                  receivedCompletions, lastResponse, needsToolRun, streamCallbackFn,
                  pc, request, stream, settled >>
  /\ UNCHANGED << temperature, max_tokens, json, subclass >>

\* The next microtask is the continuation of a forEach callback whose handler
\* returned a value.
TaskResumes(beh) ==
  /\ microtasks # << >>
  /\ Head(microtasks).kind = "task"
  /\ Landed(Resume([Frame EXCEPT !.microtasks = Tail(@)], Head(microtasks).t, beh))

\* The promise a handler returned is fulfilled: the callback resumes.
HandlerResolves(t, beh) ==
  /\ microtasks = << >>
  /\ t \in DOMAIN tasks
  /\ tasks[t].status = "awaiting"
  /\ Landed(Resume(Frame, t, beh))

\* A rejection that takes the last message of the transcript back.
HandlerRejectsRetractingReply(t) ==
  /\ microtasks = << >>
  /\ t \in DOMAIN tasks
  /\ tasks[t].status = "awaiting"
  /\ Landed([Frame EXCEPT !.tasks[t].status = "failed", !.tasks[t].error = "handler",
                          !.messages = SubSeq(@, 1, Len(@) - 1),
                          !.trace = Append(@, Event("rejected", tasks[t].calls[tasks[t].k].id))])

\* The promise a handler returned is rejected: the await in the callback
\* throws, and the callback's own promise rejects with nobody to see it.
HandlerRejects(t) ==
  /\ microtasks = << >>
  /\ t \in DOMAIN tasks
  /\ tasks[t].status = "awaiting"
  /\ Landed([Frame EXCEPT !.tasks[t].status = "failed", !.tasks[t].error = "handler",
                          !.trace = Append(@, Event("rejected", tasks[t].calls[tasks[t].k].id))])

\* The next microtask is the caller's continuation: the awaited run call has
\* returned to the caller.  The observer lets go of what it kept of the call.
CallerResumes ==
  /\ microtasks # << >>
  /\ Head(microtasks).kind = "caller"
  /\ microtasks' = Tail(microtasks)
  /\ pc' = "idle"
  /\ obs' = [obs EXCEPT !.before = << >>, !.held = Undefined, !.options = NoOptions, !.abort = "none"]
  /\ UNCHANGED << messages, tools, toolFunctionmap, streamAbortController,
                  threadCount, receivedCompletions, lastResponse, needsToolRun,
                  streamCallbackFn, request, stream, tasks, settled >>
  /\ UNCHANGED << temperature, max_tokens, json, subclass >>

\* The caller's continuation is the one of the tool example: runPrompt has
\* returned, needsToolRun() is true, and runPrompt is invoked again at once.
CallerRunsAgain ==
  /\ microtasks # << >>
  /\ Head(microtasks).kind = "caller"
  /\ settled.kind = "prompt"
  /\ settled.how = "resolved"
  /\ needsToolRun
  /\ obs.calls < MaxCalls
  /\ microtasks' = Tail(microtasks)
  /\ needsToolRun' = FALSE
  /\ request' = PromptRequest(NoOptions)
  /\ pc' = "awaitPrompt"
  /\ obs' = [obs EXCEPT !.calls = @ + 1, !.sent = @ + 1, !.followUp = TRUE,
                        !.before = messages, !.held = Held, !.options = NoOptions,
                        !.hand = [op |-> "none"], !.abort = "none"]
  /\ UNCHANGED << messages, tools, toolFunctionmap, streamAbortController,
                  threadCount, receivedCompletions, lastResponse, streamCallbackFn,
                  stream, tasks, settled >>
  /\ UNCHANGED << temperature, max_tokens, json, subclass >>

\* ---------------------------------------------------------- runPromptStream
\* setStreamCallback
SetStreamCallback ==
  /\ streamCallbackFn' = TRUE
  /\ UNCHANGED obs
  /\ UNCHANGED << messages, tools, toolFunctionmap, streamAbortController,
                  threadCount, receivedCompletions, lastResponse, needsToolRun,
                  pc, request, stream, tasks, microtasks, settled >>
  /\ UNCHANGED << temperature, max_tokens, json, subclass >>

\* The callback's latest value put before the ones it received earlier.
DeliverInFront(sink, delta) == IF streamCallbackFn THEN << delta >> \o sink ELSE sink

\* if (this.streamCallbackFn) this.streamCallbackFn(delta): what the callback
\* has received.
Deliver(sink, delta) == IF streamCallbackFn THEN Append(sink, delta) ELSE sink

\* chunk.choices[0]?.delta?.content || ""
ChunkAsString(chunk) == IF "content" \in DOMAIN chunk THEN chunk.content ELSE ""

\* The chunk put in front of the total.
AccumulateInFront(total, chunk_as_string) == chunk_as_string \o total

\* total = total + chunk_as_string
Accumulate(total, chunk_as_string) == total \o chunk_as_string

\* The request runPromptStream hands to the transport: the options spread
\* first, then the fields the instance sets; no tools, no token limit of its
\* own.
StreamRequestWithTools(modelOptions) ==
  Spread(modelOptions,
         [kind |-> "stream", messages |-> messages, stream |-> TRUE,
          temperature |-> temperature,
          tools |-> IF Len(tools) > 0 THEN [list |-> tools] ELSE Undefined])

StreamRequest(modelOptions) ==
  Spread(modelOptions,
         [kind |-> "stream", messages |-> messages, stream |-> TRUE,
          temperature |-> temperature, tools |-> Undefined])

\* runPromptStream up to the request: the handle is cleared and the request
\* is built.
RunPromptStream(modelOptions) ==
  /\ pc = "idle"
  /\ obs.calls < MaxCalls
  /\ streamAbortController' = Undefined
  /\ request' = StreamRequest(modelOptions)
  /\ pc' = "awaitStream"
  /\ obs' = [obs EXCEPT !.calls = @ + 1, !.sent = @ + 1, !.followUp = FALSE,
                        !.before = messages, !.held = Held,
                        !.baseLen = Len(messages), !.sink = << >>,
                        !.chunks = << >>, !.abort = "none",
                        !.options = modelOptions, !.hand = [op |-> "none"]]
  /\ UNCHANGED << messages, tools, toolFunctionmap, threadCount, receivedCompletions,
                  lastResponse, needsToolRun, streamCallbackFn, stream, tasks,
                  microtasks, settled >>
  /\ UNCHANGED << temperature, max_tokens, json, subclass >>

\* runPromptStream as the two subclasses override it, up to the request.
\* OpenAIWrapperSignalClass sets its own stream callback and calls
\* super.runPromptStream(modelOptions).  OpenAIWrapperRXJSClass calls
\* super.runPromptStream(callback, modelOptions): the callback arrives where
\* the options are expected, its spread adds nothing to the request, the
\* options are dropped and no stream callback is set.
RunPromptStreamOverride(modelOptions) ==
  /\ subclass # Plain
  /\ pc = "idle"
  /\ obs.calls < MaxCalls
  /\ streamCallbackFn' = IF subclass = Signal THEN TRUE ELSE streamCallbackFn
  /\ streamAbortController' = Undefined
  /\ request' = StreamRequest(IF subclass = Signal THEN modelOptions ELSE NoOptions)
  /\ pc' = "awaitStream"
  /\ obs' = [obs EXCEPT !.calls = @ + 1, !.sent = @ + 1, !.followUp = FALSE,
                        !.before = messages, !.held = Held,
                        !.baseLen = Len(messages), !.sink = << >>,
                        !.chunks = << >>, !.abort = "none",
                        !.options = modelOptions, !.hand = [op |-> "none"]]
  /\ UNCHANGED << messages, tools, toolFunctionmap, threadCount, receivedCompletions,
                  lastResponse, needsToolRun, stream, tasks, microtasks, settled >>
  /\ UNCHANGED << temperature, max_tokens, json, subclass >>

\* The transport accepts the request: the then-callback starts, stores the
\* controller of the response and asks the stream for its first chunk.
StreamOpens ==
  /\ request # Undefined
  /\ request.kind = "stream"
  /\ microtasks = << >>
  /\ streamAbortController' = [controller |-> obs.calls]
  /\ stream' = [controller |-> obs.calls, total |-> "", aborted |-> FALSE]
  /\ request' = Undefined
  /\ obs' = [obs EXCEPT !.sink = Deliver(@, [delta |-> ""])]
  /\ UNCHANGED << messages, tools, toolFunctionmap, threadCount, receivedCompletions,
                  lastResponse, needsToolRun, streamCallbackFn, pc, tasks,
                  microtasks, settled >>
  /\ UNCHANGED << temperature, max_tokens, json, subclass >>

\* The transport refuses the request: the promise of runPromptStream rejects.
StreamOpenFails ==
  /\ request # Undefined
  /\ request.kind = "stream"
  /\ microtasks = << >>
  /\ request' = Undefined
  /\ settled' = [call |-> obs.calls, kind |-> "stream", how |-> "rejected"]
  /\ microtasks' = Append(microtasks, [kind |-> "caller"])
  /\ UNCHANGED obs
  /\ UNCHANGED << messages, tools, toolFunctionmap, streamAbortController,
                  threadCount, receivedCompletions, lastResponse, needsToolRun,
                  streamCallbackFn, pc, stream, tasks >>
  /\ UNCHANGED << temperature, max_tokens, json, subclass >>

\* One pass through the body of `for await (const chunk of response)`.
StreamChunk(chunk) ==
  /\ stream # Undefined
  /\ microtasks = << >>
  /\ Len(obs.chunks) < MaxFragments
  /\ LET chunk_as_string == ChunkAsString(chunk)
     IN  /\ stream' = [stream EXCEPT !.total = Accumulate(@, chunk_as_string)]
         /\ obs' = [obs EXCEPT !.sink = Deliver(@, [delta |-> chunk_as_string]),
                               !.chunks = Append(@, chunk)]
  /\ UNCHANGED << messages, tools, toolFunctionmap, streamAbortController,
                  threadCount, receivedCompletions, lastResponse, needsToolRun,
                  streamCallbackFn, pc, request, tasks, microtasks, settled >>
  /\ UNCHANGED << temperature, max_tokens, json, subclass >>

\* The completion runPromptStream makes up for a stream that ran to its end.
StreamCompletion(total) ==
  [id |-> "stream",
   choices |-> << [finish_reason |-> "stop", index |-> 0,
                   message |-> [content |-> total, role |-> "assistant"]] >>,
   usage |-> [completion_tokens |-> 0, prompt_tokens |-> 0, total_tokens |-> 0]]

\* A stream never taken as aborted.
NeverAborted == FALSE

\* if (this.streamAbortController === undefined): the stream was aborted.
Aborted == streamAbortController = Undefined

\* An end of stream that counts the completion it has put together.
StreamEndsCountingUsage ==
  /\ stream # Undefined
  /\ microtasks = << >>
  /\ IF Aborted
     THEN /\ lastResponse' = Undefined
          /\ UNCHANGED << receivedCompletions, messages, streamAbortController,
                          threadCount >>
          /\ UNCHANGED obs
     ELSE /\ lastResponse' = StreamCompletion(stream.total)
          /\ receivedCompletions' = Append(receivedCompletions, StreamCompletion(stream.total))
          /\ messages' = _addmessages(messages, << [role |-> "assistant", content |-> stream.total] >>)
          /\ obs' = [obs EXCEPT !.sink = Deliver(@, Undefined),
                                !.published = Published(messages')]
          /\ streamAbortController' = Undefined
          /\ threadCount' = [threadCount EXCEPT !.completion_tokens = @ + 1]
  /\ stream' = Undefined
  /\ settled' = [call |-> obs.calls, kind |-> "stream", how |-> "resolved"]
  /\ microtasks' = Append(microtasks, [kind |-> "caller"])
  /\ UNCHANGED << tools, toolFunctionmap, needsToolRun,
                  streamCallbackFn, pc, request, tasks >>
  /\ UNCHANGED << temperature, max_tokens, json, subclass >>

\* An end of stream that leaves the last response alone when the stream was
\* aborted.
StreamEndsKeepingResponse ==
  /\ stream # Undefined
  /\ microtasks = << >>
  /\ IF Aborted
     THEN /\ UNCHANGED << lastResponse, receivedCompletions, messages,
                          streamAbortController >>
          /\ UNCHANGED obs
     ELSE /\ lastResponse' = StreamCompletion(stream.total)
          /\ receivedCompletions' = Append(receivedCompletions, StreamCompletion(stream.total))
          /\ messages' = _addmessages(messages, << [role |-> "assistant", content |-> stream.total] >>)
          /\ obs' = [obs EXCEPT !.sink = Deliver(@, Undefined),
                                !.published = Published(messages')]
          /\ streamAbortController' = Undefined
  /\ stream' = Undefined
  /\ settled' = [call |-> obs.calls, kind |-> "stream", how |-> "resolved"]
  /\ microtasks' = Append(microtasks, [kind |-> "caller"])
  /\ UNCHANGED << tools, toolFunctionmap, threadCount, needsToolRun,
                  streamCallbackFn, pc, request, tasks >>
  /\ UNCHANGED << temperature, max_tokens, json, subclass >>

\* The stream is over (the remote side is done, or the controller was
\* aborted): the code after the loop runs and the promise resolves.
StreamEnds ==
  /\ stream # Undefined
  /\ microtasks = << >>
  /\ IF Aborted
     THEN /\ lastResponse' = Undefined
          /\ UNCHANGED << receivedCompletions, messages, streamAbortController >>
          /\ UNCHANGED obs
     ELSE /\ lastResponse' = StreamCompletion(stream.total)
          /\ receivedCompletions' = Append(receivedCompletions, StreamCompletion(stream.total))
          /\ messages' = _addmessages(messages, << [role |-> "assistant", content |-> stream.total] >>)
          /\ obs' = [obs EXCEPT !.sink = Deliver(@, Undefined),
                                !.published = Published(messages')]
          /\ streamAbortController' = Undefined
  /\ stream' = Undefined
  /\ settled' = [call |-> obs.calls, kind |-> "stream", how |-> "resolved"]
  /\ microtasks' = Append(microtasks, [kind |-> "caller"])
  /\ UNCHANGED << tools, toolFunctionmap, threadCount, needsToolRun,
                  streamCallbackFn, pc, request, tasks >>
  /\ UNCHANGED << temperature, max_tokens, json, subclass >>

\* A stream error handled as an abort is: the last response is cleared and
\* the promise rejects.
StreamErrorClearingResponse ==
  /\ stream # Undefined
  /\ ~stream.aborted
  /\ microtasks = << >>
  /\ stream' = Undefined
  /\ lastResponse' = Undefined
  /\ settled' = [call |-> obs.calls, kind |-> "stream", how |-> "rejected"]
  /\ microtasks' = Append(microtasks, [kind |-> "caller"])
  /\ UNCHANGED obs
  /\ UNCHANGED << messages, tools, toolFunctionmap, streamAbortController,
                  threadCount, receivedCompletions, needsToolRun,
                  streamCallbackFn, pc, request, tasks >>
  /\ UNCHANGED << temperature, max_tokens, json, subclass >>

\* The stream raises an error while it is iterated: the for-await throws out
\* of the then-callback and the promise rejects.  A stream whose controller
\* was aborted ends instead (the transport library swallows the abort error).
StreamError ==
  /\ stream # Undefined
  /\ ~stream.aborted
  /\ microtasks = << >>
  /\ stream' = Undefined
  /\ settled' = [call |-> obs.calls, kind |-> "stream", how |-> "rejected"]
  /\ microtasks' = Append(microtasks, [kind |-> "caller"])
  /\ UNCHANGED obs
  /\ UNCHANGED << messages, tools, toolFunctionmap, streamAbortController,
                  threadCount, receivedCompletions, lastResponse, needsToolRun,
                  streamCallbackFn, pc, request, tasks >>
  /\ UNCHANGED << temperature, max_tokens, json, subclass >>

\* When abortStream was invoked, as seen from the stream call in progress.
AbortSeen ==
  IF stream # Undefined THEN "open"
  ELSE IF request # Undefined /\ request.kind = "stream" /\ obs.abort = "none"
       THEN "opening"
       ELSE IF request # Undefined /\ request.kind = "prompt" THEN "prompt"
       ELSE obs.abort

\* The controllers abort() was called on, with the one of the stored handle
\* as the last.
Signalled == Append(obs.signals, streamAbortController.controller)

\* An abortStream that, finding no stored controller, clears the last
\* response.
AbortStreamForgetsResponse ==
  /\ IF streamAbortController # Undefined
     THEN /\ stream' = IF stream # Undefined THEN [stream EXCEPT !.aborted = TRUE]
                       ELSE stream
          /\ streamAbortController' = Undefined
          /\ obs' = [obs EXCEPT !.abort = AbortSeen, !.signals = Signalled]
          /\ UNCHANGED lastResponse
     ELSE /\ lastResponse' = Undefined
          /\ obs' = [obs EXCEPT !.abort = AbortSeen]
          /\ UNCHANGED << stream, streamAbortController >>
  /\ UNCHANGED << messages, tools, toolFunctionmap, threadCount, receivedCompletions,
                  needsToolRun, streamCallbackFn, pc, request, tasks,
                  microtasks, settled >>
  /\ UNCHANGED << temperature, max_tokens, json, subclass >>

\* An abortStream that aborts the stored controller and keeps the handle.
AbortStreamKeepsHandle ==
  /\ IF streamAbortController # Undefined
     THEN /\ stream' = IF stream # Undefined THEN [stream EXCEPT !.aborted = TRUE]
                       ELSE stream
          /\ obs' = [obs EXCEPT !.abort = AbortSeen, !.signals = Signalled]
          /\ UNCHANGED streamAbortController
     ELSE /\ obs' = [obs EXCEPT !.abort = AbortSeen]
          /\ UNCHANGED << stream, streamAbortController >>
  /\ UNCHANGED << messages, tools, toolFunctionmap, threadCount, receivedCompletions,
                  lastResponse, needsToolRun, streamCallbackFn, pc, request, tasks,
                  microtasks, settled >>
  /\ UNCHANGED << temperature, max_tokens, json, subclass >>

\* An abortStream that also cancels the request of a runPrompt in flight.
AbortStreamCancelsPrompt ==
  /\ IF streamAbortController # Undefined
     THEN /\ stream' = IF stream # Undefined THEN [stream EXCEPT !.aborted = TRUE]
                       ELSE stream
          /\ streamAbortController' = Undefined
          /\ obs' = [obs EXCEPT !.abort = AbortSeen, !.signals = Signalled]
     ELSE /\ obs' = [obs EXCEPT !.abort = AbortSeen]
          /\ UNCHANGED << stream, streamAbortController >>
  /\ IF request # Undefined /\ request.kind = "prompt"
     THEN /\ request' = Undefined
          /\ settled' = [call |-> obs.calls, kind |-> "prompt", how |-> "rejected"]
          /\ microtasks' = Append(microtasks, [kind |-> "caller"])
     ELSE UNCHANGED << request, settled, microtasks >>
  /\ UNCHANGED << messages, tools, toolFunctionmap, threadCount, receivedCompletions,
                  lastResponse, needsToolRun, streamCallbackFn, pc, tasks >>
  /\ UNCHANGED << temperature, max_tokens, json, subclass >>

\* abortStream: a stored controller is aborted and the handle cleared;
\* without a stored controller nothing happens.
AbortStream ==
  /\ IF streamAbortController # Undefined
     THEN /\ stream' = IF stream # Undefined THEN [stream EXCEPT !.aborted = TRUE]
                       ELSE stream
          /\ streamAbortController' = Undefined
          /\ obs' = [obs EXCEPT !.abort = AbortSeen, !.signals = Signalled]
     ELSE /\ obs' = [obs EXCEPT !.abort = AbortSeen]
          /\ UNCHANGED << stream, streamAbortController >>
  /\ UNCHANGED << messages, tools, toolFunctionmap, threadCount, receivedCompletions,
                  lastResponse, needsToolRun, streamCallbackFn, pc, request, tasks,
                  microtasks, settled >>
  /\ UNCHANGED << temperature, max_tokens, json, subclass >>

\* -------------------------------------------------------------------- Next
\* What the caller does before the first run call: the transcript is set
\* (README, app.tsx), tools are declared with their handlers.
Configure ==
  /\ Configuring
  /\ \E new \in { << >>, << UserMessage >> } : SetMessages(new)

\* Each tool is declared once, with its handler.
ConfigureTools ==
  /\ Configuring
  /\ \E name \in Declared \ NamesIn(tools), fn \in Handlers :
       AddToolWithFunction(FunctionDefinition(name, "d"), fn)

\* A user message is appended to the empty transcript, a callback is set.
ConfigureStream ==
  /\ Configuring
  /\ \/ messages = << >> /\ AppendUserMessage
     \/ SetStreamCallback

\* The number of choices the request in flight asks for.
ChoicesAsked == IF request = Undefined THEN 1 ELSE request.n

\* The completion runner: the caller, the transport and the handlers.
Completion ==
  \/ \E n \in ChoiceCounts(obs.calls + 1) : RunPrompt([n |-> n])
  \/ \E response \in Completions(obs.calls, ChoicesAsked, MaxToolCalls - obs.issued) :
       \E behs \in BehaviourLists(Len(response.choices)) : PromptReply(response, behs)
  \/ PromptFails
  \/ \E beh \in Behaviours : TaskResumes(beh)
  \/ \E t \in 1..MaxToolCalls, beh \in Behaviours : HandlerResolves(t, beh)
  \/ \E t \in 1..MaxToolCalls : HandlerRejects(t)
  \/ CallerRunsAgain

\* The stream runner: the caller and the transport.
Streaming ==
  \/ RunPromptStream(NoOptions)
  \/ StreamOpens
  \/ StreamOpenFails
  \/ \E chunk \in Chunks : StreamChunk(chunk)
  \/ StreamEnds
  \/ StreamError

\* The stored settings are changed, at any moment.
Settings ==
  \/ \E value \in Temperatures : SetTemperature(value)
  \/ \E value \in TokenLimits : SetMaxTokens(value)

\* Calls with per-call options, answered with plain completions or streams.
Thread ==
  \/ \E modelOptions \in Options : RunPrompt(modelOptions)
  \/ \E response \in PlainCompletions(obs.calls) :
       \E behs \in BehaviourLists(1) : PromptReply(response, behs)
  \/ PromptFails
  \/ \E modelOptions \in Options : RunPromptStream(modelOptions)
  \/ StreamOpens
  \/ StreamOpenFails
  \/ StreamChunk([content |-> "Hel"])
  \/ StreamEnds
  \/ StreamError

NextThread == ConfigureTools \/ Settings \/ Thread \/ CallerResumes \/ AbortStream

\* The transcripts a caller sets.
Transcripts == { << >>, << UserMessage >>, << SystemMessage, UserMessage >> }

\* The caller works on the transcript by hand, between run calls.
Transcript ==
  /\ pc = "idle"
  /\ \/ \E new \in Transcripts : SetMessages(new)
     \/ AppendMessage(SystemMessage)
     \/ AppendUserMessage

NextBuilder ==
  \/ Transcript
  \/ RunPrompt(NoOptions)
  \/ \E response \in Completions(obs.calls, 1, 0) :
       \E behs \in BehaviourLists(1) : PromptReply(response, behs)
  \/ PromptFails
  \/ CallerResumes

\* The caller registers tools, with a handler or without, before the first
\* run call; a name may be registered again.
Registry ==
  /\ Configuring
  /\ \/ \E chatToolFunction \in Declarations(ToolNames) : AddTool(chatToolFunction)
     \/ \E chatToolFunction \in Declarations(ToolNames),
           toolFunctionInJS \in Handlers \cup OtherHandlers :
          AddToolWithFunction(chatToolFunction, toolFunctionInJS)

\* Run calls answered with one tool call each, the handlers returning values.
NextTools ==
  \/ Registry
  \/ RunPrompt(NoOptions)
  \/ \E response \in SingleCalls(obs.calls) :
       /\ obs.issued < MaxToolCalls
       /\ PromptReply(response, << "sync" >>)
  \/ TaskResumes("sync")
  \/ CallerResumes
  \/ CallerRunsAgain

\* The caller sets the instance up, then takes one snapshot, between run
\* calls, and restores it, once or more, between later run calls.
Snapshot ==
  /\ pc = "idle"
  /\ \/ json = Undefined /\ ToJSON
     \/ FromJSON
     \/ FromJSONForeign

NextSnapshot ==
  \/ json = Undefined /\ Configure
  \/ json = Undefined /\ ConfigureTools
  \/ RunPrompt(NoOptions)
  \/ \E response \in Completions(obs.calls, 1, 0) :
       \E behs \in BehaviourLists(1) : PromptReply(response, behs)
  \/ CallerResumes
  \/ Snapshot

NextPrompt == Configure \/ ConfigureTools \/ Completion \/ CallerResumes

NextStream ==
  \/ Configure
  \/ ConfigureStream
  \/ Streaming
  \/ CallerResumes
  \/ AbortStream

Next ==
  \/ Configure
  \/ ConfigureTools
  \/ ConfigureStream
  \/ Completion
  \/ Streaming
  \/ CallerResumes
  \/ AbortStream

\* Runs whose calls are all runPrompt, runs whose calls are all
\* runPromptStream, and runs that mix them.
SpecPrompt == Init /\ [][NextPrompt]_vars

SpecStream == Init /\ [][NextStream]_vars

\* Runs in which the caller builds the transcript by hand between calls.
SpecBuilder == Init /\ [][NextBuilder]_vars

\* Runs in which the caller registers tools, then has them called.
SpecTools == Init /\ [][NextTools]_vars

\* Runs with snapshots taken and restored.
SpecSnapshot == Init /\ [][NextSnapshot]_vars

\* An instance of one of the subclasses: the caller works on the transcript
\* between run calls, runPrompt is answered with plain completions, and
\* runPromptStream is the override of the subclass.
NextAdapter ==
  \/ Transcript
  \/ RunPrompt(NoOptions)
  \/ \E response \in Completions(obs.calls, 1, 0) :
       \E behs \in BehaviourLists(1) : PromptReply(response, behs)
  \/ RunPromptStreamOverride(NoOptions)
  \/ StreamOpens
  \/ StreamChunk([content |-> "Hel"])
  \/ StreamEnds
  \/ CallerResumes

SpecAdapter == InitAdapter /\ [][NextAdapter]_vars

\* Runs of calls with stored settings and per-call options.
SpecThread == Init /\ [][NextThread]_vars

Spec == Init /\ [][Next]_vars

\* ------------------------------------------------------------ observations
\* The caller's continuation is the next thing to run: the awaited call
\* returns to the caller.
AtReturn == microtasks # << >> /\ Head(microtasks).kind = "caller"

PromptReturned == AtReturn /\ settled.kind = "prompt" /\ settled.how = "resolved"

StreamReturned == AtReturn /\ settled.kind = "stream" /\ settled.how = "resolved"

\* The completion a forEach callback belongs to.
CallOf(task) == task.calls[1].id[1]

\* The tool calls of a completion, over all its choices.
CallIds(response) ==
  UNION { { CallsOf(response.choices[i])[k].id : k \in DOMAIN CallsOf(response.choices[i]) } :
            i \in DOMAIN response.choices }

IsToolMessage(m) == m.role = "tool"

\* The tool-call ids the tool-result messages of msgs answer, in order.
RECURSIVE ResultIds(_)
ResultIds(msgs) ==
  IF msgs = << >> THEN << >>
  ELSE IF IsToolMessage(Head(msgs))
       THEN << Head(msgs).tool_call_id >> \o ResultIds(Tail(msgs))
       ELSE ResultIds(Tail(msgs))

Range(seq) == { seq[i] : i \in DOMAIN seq }

NoTaskFailed == \A t \in DOMAIN tasks : tasks[t].status # "failed"

\* The ids of the tool calls of task t, in order, and those among them that
\* the transcript holds a tool result for, in transcript order.
TaskIds(t) == [k \in DOMAIN tasks[t].calls |-> tasks[t].calls[k].id]

RECURSIVE Among(_, _)
Among(ids, set) ==
  IF ids = << >> THEN << >>
  ELSE IF Head(ids) \in set THEN << Head(ids) >> \o Among(Tail(ids), set)
       ELSE Among(Tail(ids), set)

AnsweredOf(t) == Among(ResultIds(messages), Range(TaskIds(t)))

\* The tool calls of task t whose iteration has finished: all of them when
\* the task is done, those before the current one otherwise.
Finished(t) == IF tasks[t].status = "done" THEN Len(tasks[t].calls) ELSE tasks[t].k - 1

Position(e, id) ==
  { p \in DOMAIN obs.trace : obs.trace[p] = Event(e, id) }

\* ------------------------------------------------------------------ claims
\* C1: when runPrompt returns to the caller with a reply that carried tool
\* calls, and no handler was missing or failed, the transcript holds a
\* tool-result message for every tool call of that reply.
C1_ResultsInTranscriptAtReturn ==
  (PromptReturned /\ NoTaskFailed) =>
    CallIds(lastResponse) \subseteq Range(ResultIds(messages))

\* C2: the request of a runPrompt invoked as soon as a runPrompt that left
\* needsToolRun() true has returned carries, after each assistant message
\* with tool calls of that reply, a tool-result message for each of its calls.
C2_FollowUpRequestCarriesResults ==
  (request # Undefined /\ request.kind = "prompt" /\ obs.followUp /\ NoTaskFailed) =>
    \A i \in DOMAIN lastResponse.choices :
      \E p \in DOMAIN request.messages :
        /\ request.messages[p] = lastResponse.choices[i]
        /\ { CallsOf(lastResponse.choices[i])[k].id :
               k \in DOMAIN CallsOf(lastResponse.choices[i]) }
             \subseteq Range(ResultIds(SubSeq(request.messages, p + 1, Len(request.messages))))

\* C3: a runPrompt call whose reply names a tool without a handler is
\* rejected, it does not resolve.
C3_UnknownToolRejectsRunPrompt ==
  \A t \in DOMAIN tasks :
    (tasks[t].error = "is not defined" /\ settled.kind = "prompt"
       /\ settled.call = CallOf(tasks[t]))
      => settled.how = "rejected"

\* C8: the tool-result messages of one assistant message stand in the
\* transcript in the order of its tool calls, and a handler is started only
\* after the result of the call before it has been appended.
C8_ToolResultsInCallOrder ==
  \A t \in DOMAIN tasks :
    /\ AnsweredOf(t) = SubSeq(TaskIds(t), 1, Finished(t))
    /\ \A k \in 2..Len(tasks[t].calls) :
         \A p \in Position("invoke", TaskIds(t)[k]) :
           \E q \in Position("result", TaskIds(t)[k - 1]) : q < p

\* C8's case: an assistant message with three tool calls, all answered.
C8_Witness ==
  \E t \in DOMAIN tasks :
    /\ Len(tasks[t].calls) = 3
    /\ tasks[t].status = "done"
    /\ AnsweredOf(t) = TaskIds(t)

\* C9: when the k-th tool call of a batch names an unregistered tool, the
\* results of calls 1..k-1 are in the transcript, and no later call of the
\* batch is invoked or answered.
C9_UnknownToolStopsBatch ==
  \A t \in DOMAIN tasks :
    \A k \in DOMAIN tasks[t].calls :
      Position("undefined", TaskIds(t)[k]) # {} =>
        /\ AnsweredOf(t) = SubSeq(TaskIds(t), 1, k - 1)
        /\ \A j \in k..Len(tasks[t].calls) : Position("invoke", TaskIds(t)[j]) = {}

\* C9's case: the second of three tool calls is unknown, the first answered.
C9_Witness ==
  \E t \in DOMAIN tasks :
    /\ tasks[t].error = "is not defined"
    /\ tasks[t].k = 2
    /\ Len(tasks[t].calls) = 3
    /\ toolFunctionmap[tasks[t].calls[3].name] # Undefined
    /\ AnsweredOf(t) = << TaskIds(t)[1] >>

\* C10: a runPrompt call during which a registered handler throws, or
\* returns a promise that rejects, is rejected.
C10_HandlerFailureRejectsRunPrompt ==
  \A t \in DOMAIN tasks :
    (tasks[t].error = "handler" /\ settled.kind = "prompt"
       /\ settled.call = CallOf(tasks[t]))
      => settled.how = "rejected"

\* C11: when the transport request of a runPrompt call fails, the call is
\* rejected, and at its return the transcript is the one the call was made
\* with: no assistant message, no tool-result message has been added.
PromptRejected == AtReturn /\ settled.kind = "prompt" /\ settled.how = "rejected"

C11_FailedCallLeavesTranscript ==
  PromptRejected => messages = obs.before

\* The settings a caller can both store in the instance and pass per call.
StoredFields == {"temperature", "max_tokens"}

\* C12: the request in flight carries, for every setting the caller passed
\* in the per-call options of the call, the value passed.
C12_PerCallOptionsReachTransport ==
  request # Undefined =>
    \A k \in DOMAIN obs.options \cap StoredFields :
      k \in DOMAIN request /\ request[k] = obs.options[k]

RECURSIVE TextOf(_)
TextOf(chunks) ==
  IF chunks = << >> THEN ""
  ELSE ChunkAsString(Head(chunks)) \o TextOf(Tail(chunks))

\* The messages appended since runPromptStream was called, and the
\* assistant messages among them.
AppendedSinceCall == SubSeq(messages, obs.baseLen + 1, Len(messages))

IsAssistantMessage(m) == m.role = "assistant"

AssistantAppended == SelectSeq(AppendedSinceCall, IsAssistantMessage)

\* C4, as claimed: after a runPromptStream during which abortStream was
\* invoked, be it while the request was being opened or while the stream
\* was open, the transcript is as long as before and the last response is
\* undefined.
C4_AbortAnyTimeLeavesNoReply ==
  (StreamReturned /\ obs.abort \in {"opening", "open"}) =>
    /\ Len(messages) = obs.baseLen
    /\ lastResponse = Undefined

\* C4, amended: after a runPromptStream during which abortStream was invoked
\* while the stream was open (its handle stored), no assistant message has
\* been appended and the last response is undefined.
C4_AbortWhileOpenLeavesNoReply ==
  (StreamReturned /\ obs.abort = "open") =>
    /\ AssistantAppended = << >>
    /\ lastResponse = Undefined

\* C4's case: abortStream during an open stream that had delivered a chunk,
\* after an earlier call left a last response behind.
C4_Witness ==
  /\ StreamReturned
  /\ obs.abort = "open"
  /\ obs.chunks # << >>
  /\ receivedCompletions # << >>

\* C5: a runPromptStream that completes without being aborted appends one
\* assistant message whose content is the text of the chunks in the order
\* received, and the last response carries the same content.
C5_CompletedStreamAppendsTotal ==
  (StreamReturned /\ obs.abort # "open") =>
    /\ AssistantAppended = << [role |-> "assistant", content |-> TextOf(obs.chunks)] >>
    /\ lastResponse # Undefined
    /\ lastResponse.choices[1].message.content = TextOf(obs.chunks)

\* C5's case: the chunks "Hel", "lo" were received and the call returned.
C5_Witness ==
  /\ StreamReturned
  /\ obs.abort # "open"
  /\ obs.chunks = << [content |-> "Hel"], [content |-> "lo"] >>
  /\ messages[Len(messages)].content = "Hello"

\* C6: a runPromptStream that resolves, completed or aborted, has delivered
\* the end-of-stream sentinel to the stream callback as its last value.
C6_SentinelDeliveredOnEveryOutcome ==
  (StreamReturned /\ streamCallbackFn) =>
    /\ obs.sink # << >>
    /\ obs.sink[Len(obs.sink)] = Undefined

\* C7: after runPromptStream has ended, resolved or rejected, no stream
\* handle is stored.
C7_HandleClearedOnEveryExit ==
  (AtReturn /\ settled.kind = "stream") => streamAbortController = Undefined

\* The strings the chunks received stand for, as the callback gets them.
Deltas(chunks) == [i \in DOMAIN chunks |-> [delta |-> ChunkAsString(chunks[i])]]

\* A runPromptStream call that was not aborted while open has resolved, with
\* a stream callback set.
CompletedWithCallback == StreamReturned /\ obs.abort # "open" /\ streamCallbackFn

\* C14, as claimed: the values the stream callback got during a stream that
\* completed are the fragments in the order received, then the sentinel.
C14_SinkIsFragmentsThenSentinel ==
  CompletedWithCallback => obs.sink = Deltas(obs.chunks) \o << Undefined >>

\* C14, amended: the callback first gets the empty string, when the stream
\* opens; then, while the stream is open, the string of every chunk received
\* so far, in order (the empty string for a chunk without content); and when
\* the stream has completed the sentinel, as the last value.
C14_SinkIsResetFragmentsSentinel ==
  streamCallbackFn =>
    /\ stream # Undefined => obs.sink = << [delta |-> ""] >> \o Deltas(obs.chunks)
    /\ CompletedWithCallback =>
         obs.sink = << [delta |-> ""] >> \o Deltas(obs.chunks) \o << Undefined >>

\* C14's case: the chunks "Hel", "lo" were received, the stream completed.
C14_Witness ==
  /\ CompletedWithCallback
  /\ obs.chunks = << [content |-> "Hel"], [content |-> "lo"] >>
  /\ Len(obs.sink) = 4

\* The fields of the instance, and what is in flight around it.
instance ==
  << messages, tools, toolFunctionmap, streamAbortController, threadCount,
     receivedCompletions, lastResponse, needsToolRun, streamCallbackFn,
     temperature, max_tokens >>

inFlight == << pc, request, stream, tasks, microtasks, settled >>

\* C15: an abortStream that finds no stream handle stored changes no field
\* of the instance and nothing in flight; the state it leaves is the state
\* it found, so a second one right after it does the same.
C15_AbortWithoutHandleChangesNothing ==
  [][(AbortStream /\ streamAbortController = Undefined)
       => UNCHANGED << instance, inFlight >>]_vars

\* C15's case: abortStream was invoked while the request of a stream was
\* being opened, no handle stored yet, after an earlier call had left a last
\* response; the request is still in flight.
C15_Witness ==
  /\ obs.abort = "opening"
  /\ streamAbortController = Undefined
  /\ request # Undefined
  /\ lastResponse # Undefined

\* C17: after a series of appendMessage and appendUserMessage calls the
\* transcript is the transcript the series started from, followed by the
\* messages appended, in call order.
C17_AppendsFollowInCallOrder ==
  obs.hand.op = "append" => messages = obs.hand.base \o obs.hand.appended

\* C17's case: two appends, of a user message and then of another message,
\* to a transcript that held the reply of a run call.
C17_Witness ==
  /\ obs.hand.op = "append"
  /\ obs.hand.base # << >>
  /\ receivedCompletions # << >>
  /\ Len(obs.hand.appended) = 2
  /\ obs.hand.appended[1] = UserMessage
  /\ obs.hand.appended[2] # UserMessage

\* C18: after setMessages(seq) the transcript is seq.
C18_SetMessagesReplaces ==
  obs.hand.op = "set" => messages = obs.hand.set

\* C18's case: setMessages with a non-empty seq on a transcript that held
\* other messages, among them the reply of a run call.
C18_Witness ==
  /\ obs.hand.op = "set"
  /\ obs.hand.set = << SystemMessage, UserMessage >>
  /\ Len(obs.hand.prior) = 2
  /\ obs.hand.prior[1] = UserMessage
  /\ IsAssistantMessage(obs.hand.prior[2])

\* C19: the list of declarations holds at most one declaration per name.
C19_DeclarationsUniqueByName ==
  \A i, j \in DOMAIN tools :
    tools[i].function.name = tools[j].function.name => i = j

\* The handler the last addToolWithFunction for a name passed, if any.
LastBound(name) ==
  IF obs.bound[name] = << >> THEN Undefined
  ELSE obs.bound[name][Len(obs.bound[name])]

\* C20: every name is bound to the handler the last addToolWithFunction for
\* that name passed, and to none if there was no such call; a tool call is
\* handed to the handler bound to its name, and the tool-result message of a
\* call carries what that handler returned.
C20_LastHandlerBoundIsInvoked ==
  /\ \A name \in ToolNames : toolFunctionmap[name] = LastBound(name)
  /\ \A t \in DOMAIN tasks :
       LET call == tasks[t].calls[tasks[t].k]
       IN  IF LastBound(call.name) = Undefined
           THEN tasks[t].error = "is not defined"
           ELSE /\ tasks[t].fn = LastBound(call.name)
                /\ Position("invoke", call.id) # {}
  /\ \A p \in DOMAIN messages :
       IsToolMessage(messages[p]) =>
         messages[p].content = ReturnOf(LastBound(messages[p].name))

\* C20's case: f was bound to one handler, then to another, g to the first
\* one; a tool call to f was answered by the second handler.
C20_Witness ==
  /\ Len(obs.bound["f"]) = 2
  /\ obs.bound["f"][1] # obs.bound["f"][2]
  /\ obs.bound["g"] = << obs.bound["f"][1] >>
  /\ \E p \in DOMAIN messages :
       /\ IsToolMessage(messages[p])
       /\ messages[p].name = "f"
       /\ messages[p].content = ReturnOf(obs.bound["f"][2])

\* C16: a fromJSON of the string of a toJSON leaves the instance with the
\* transcript, the tool declarations, the handlers bound to the tool names
\* and the usage counters it had when the string was made.
C16_RestoreReproducesSnapshot ==
  [][FromJSON =>
       /\ messages' = obs.snapshot.messages
       /\ tools' = obs.snapshot.tools
       /\ toolFunctionmap' = obs.snapshot.toolFunctionmap
       /\ threadCount' = obs.snapshot.threadCount]_vars

\* C21: when runPrompt has returned, needsToolRun() tells whether a message
\* of the reply carried at least one tool call.
C21_FlagTellsToolCalls ==
  PromptReturned =>
    (needsToolRun <=>
       \E i \in DOMAIN lastResponse.choices : Len(CallsOf(lastResponse.choices[i])) > 0)

\* C22: every run call hands exactly one request to the transport: the
\* requests sent are as many as the calls made, whatever tool calls were
\* executed and whatever failed, and a request is in flight only while its
\* call is pending.
C22_OneRequestPerInvocation ==
  /\ obs.sent = obs.calls
  /\ request # Undefined => pc \in {"awaitPrompt", "awaitStream"}

\* A call whose tool call was executed has returned, a later call has failed,
\* and no request is in flight.
C22_Witness ==
  /\ obs.calls = 2
  /\ pc = "idle"
  /\ request = Undefined
  /\ settled # Undefined
  /\ settled.how = "rejected"
  /\ \E t \in DOMAIN tasks : tasks[t].status = "done"

\* C23: a request of runPromptStream carries no tool declarations, whatever
\* is registered and whatever the options of the call hold; a request of
\* runPrompt carries the registered declarations when there is one.
C23_ToolsInPromptRequestsOnly ==
  request # Undefined =>
    IF request.kind = "stream" THEN request.tools = Undefined
    ELSE Len(tools) > 0 => request.tools = [list |-> tools]

\* A tool is registered and the options of a runPromptStream call hold a list
\* of tools: the request is in flight.
C23_Witness ==
  /\ request # Undefined
  /\ request.kind = "stream"
  /\ Len(tools) > 0
  /\ "tools" \in DOMAIN obs.options

\* C24: a fromJSON whose string holds a key that is no field of the instance
\* returns the error outcome.
C24_ForeignKeyReportsError ==
  obs.restore # Undefined =>
    ((\E i \in DOMAIN obs.restore.keys : obs.restore.keys[i] \notin OwnKeys)
       => ~obs.restore.success)

\* The foreign key was the last key of the string of an instance with a
\* completion: every other key had been assigned when the loop met it.
C24_Witness ==
  /\ obs.restore # Undefined
  /\ Len(obs.restore.keys) > 1
  /\ obs.restore.keys[Len(obs.restore.keys)] \notin OwnKeys
  /\ ~obs.restore.success
  /\ Len(receivedCompletions) > 0

\* The position of the nearest message before position p that is no
\* tool-result message; 0 when there is none.
Emitter(p) ==
  LET before == { q \in 1..(p - 1) : ~IsToolMessage(messages[q]) }
  IN  IF before = {} THEN 0 ELSE CHOOSE q \in before : \A r \in before : r <= q

\* C25: every tool-result message of the transcript follows, with nothing but
\* tool-result messages in between, the assistant message that emitted its
\* tool_call_id.
C25_ResultsFollowTheirAssistantMessage ==
  \A p \in DOMAIN messages :
    IsToolMessage(messages[p]) =>
      /\ Emitter(p) > 0
      /\ IsAssistantMessage(messages[Emitter(p)])
      /\ \E k \in DOMAIN CallsOf(messages[Emitter(p)]) :
           CallsOf(messages[Emitter(p)])[k].id = messages[p].tool_call_id

\* The transcript before a step is the head of the transcript after it.
Grows == Len(messages) <= Len(messages') /\ SubSeq(messages', 1, Len(messages)) = messages

\* C26: every step other than a setMessages leaves the transcript it found at
\* the head of the new one, the failing of a tool call included.
C26_TranscriptOnlyGrows ==
  [][(\E new \in Transcripts : SetMessages(new)) \/ Grows]_vars

\* The handler of a tool call has failed and the assistant message that
\* carried the call is in the transcript, with a message appended after it.
C26_Witness ==
  \E t \in DOMAIN tasks, p \in DOMAIN messages :
    /\ tasks[t].status = "failed"
    /\ tasks[t].error = "handler"
    /\ IsAssistantMessage(messages[p])
    /\ CallsOf(messages[p]) = tasks[t].calls
    /\ p < Len(messages)

\* The tool calls whose handler was invoked so far.
Executed == SelectSeq(obs.trace, LAMBDA event : event.e = "invoke")

\* C27: once the tool calls of the replies have run as far as they go, the
\* tool-call counter is the number of tool calls whose handler was executed.
C27_CounterCountsExecutedCalls ==
  (\A t \in DOMAIN tasks : tasks[t].status \in {"done", "failed"})
    => threadCount.tool_calls = Len(Executed)

\* C28: from the moment runPromptStream is called to the moment it has
\* returned to the caller, no step changes a usage counter, however the
\* stream ends.
C28_StreamLeavesCounters ==
  [][(pc = "awaitStream" \/ pc' = "awaitStream") => threadCount' = threadCount]_vars

\* A stream call made after a completion was counted has run to its end and
\* appended its reply.
C28_Witness ==
  /\ pc = "awaitStream"
  /\ settled # Undefined
  /\ settled.call = obs.calls
  /\ settled.kind = "stream"
  /\ settled.how = "resolved"
  /\ lastResponse # Undefined
  /\ threadCount.total_tokens > 0

\* What a request without per-call options is built from.
BuiltFromStored ==
  /\ request'.temperature = temperature
  /\ request'.kind = "prompt" =>
       /\ request'.max_tokens = max_tokens
       /\ request'.tools = IF Len(tools) > 0 THEN [list |-> tools] ELSE Undefined

\* C29: the stored temperature, token limit and tool declarations change in
\* the steps of the setters and of the tool registration only, never in a
\* step of a run call, whatever options it was given; and a run call without
\* options builds its request from the stored values.
C29_OptionsLeaveStoredSettings ==
  [][/\ Settings \/ ConfigureTools \/ UNCHANGED << temperature, max_tokens, tools >>
     /\ RunPrompt(NoOptions) \/ RunPromptStream(NoOptions) => BuiltFromStored]_vars

\* The second run call was given a temperature of 0 and has come to its end:
\* the stored temperature is 1, the token limit is the one that was set.
C29_Witness ==
  /\ obs.calls = 2
  /\ settled # Undefined
  /\ settled.call = 2
  /\ "temperature" \in DOMAIN obs.options
  /\ obs.options.temperature = 0
  /\ temperature = 1
  /\ max_tokens \in TokenLimits

\* C30: abort() is called at most once on a controller, and a controller it
\* was called on is no longer the stored handle.
C30_NoHandleAbortedTwice ==
  /\ \A i, j \in DOMAIN obs.signals : i # j => obs.signals[i] # obs.signals[j]
  /\ streamAbortController # Undefined =>
       \A i \in DOMAIN obs.signals : obs.signals[i] # streamAbortController.controller

\* Two streams, each aborted while its handle was stored: the second is
\* still open, its controller aborted and the handle cleared.
C30_Witness ==
  /\ Len(obs.signals) = 2
  /\ stream # Undefined
  /\ stream.aborted
  /\ streamAbortController = Undefined

\* C31: an abortStream invoked while a runPrompt call is pending leaves the
\* request in flight and everything the call reads or writes as it was: the
\* call goes on from the state it would have been in without it.
C31_AbortLeavesPromptCall ==
  [][(AbortStream /\ pc = "awaitPrompt")
       => UNCHANGED << messages, threadCount, receivedCompletions, lastResponse,
                       needsToolRun, tools, temperature, max_tokens,
                       pc, request, tasks, microtasks, settled >>]_vars

\* abortStream was invoked while the request of a runPrompt call was in
\* flight, a controller was aborted in the run, and the call has run to its
\* end: its completion is counted and stored.
C31_Witness ==
  /\ PromptReturned
  /\ obs.abort = "prompt"
  /\ Len(obs.signals) = 1
  /\ lastResponse # Undefined
  /\ lastResponse.id = obs.calls
  /\ threadCount.total_tokens > 0

\* The outcome Completed: one assistant message with the text of the chunks
\* was appended and the completion made of it is the last response.
OutcomeCompleted ==
  /\ AssistantAppended = << [role |-> "assistant", content |-> TextOf(obs.chunks)] >>
  /\ lastResponse = StreamCompletion(TextOf(obs.chunks))

\* The outcome Aborted: no assistant message was appended and the last
\* response is undefined.
OutcomeAborted ==
  /\ AssistantAppended = << >>
  /\ lastResponse = Undefined

\* C32: a runPromptStream that resolves has one of the two outcomes and not
\* the other, and it is Aborted exactly when abortStream cleared the stored
\* handle while the stream was open.
C32_CompletedOrAborted ==
  StreamReturned =>
    IF obs.abort = "open"
    THEN OutcomeAborted /\ ~OutcomeCompleted
    ELSE OutcomeCompleted /\ ~OutcomeAborted

\* The first stream completed; the second was aborted after a chunk and has
\* resolved.
C32_Witness ==
  /\ StreamReturned
  /\ obs.calls = 2
  /\ obs.abort = "open"
  /\ obs.chunks # << >>
  /\ Len(receivedCompletions) = 1
  /\ receivedCompletions[1].id = "stream"

\* C33: a handler that was invoked for a tool call was given every argument
\* of the call's parsed payload, and the tool-result message of a call carries
\* the call's id and the value its handler returned.
C33_HandlerGetsEveryArgument ==
  /\ \A t \in DOMAIN tasks :
       tasks[t].given # Undefined =>
         LET call == tasks[t].calls[tasks[t].given.k]
         IN  \A key \in DOMAIN call.arguments :
               /\ key \in DOMAIN tasks[t].given.args
               /\ tasks[t].given.args[key] = call.arguments[key]
  /\ \A p \in DOMAIN messages :
       IsToolMessage(messages[p]) =>
         /\ \E t \in DOMAIN tasks, k \in 1..MaxToolCalls :
              /\ k \in DOMAIN tasks[t].calls
              /\ tasks[t].calls[k].id = messages[p].tool_call_id
              /\ tasks[t].calls[k].name = messages[p].name
         /\ messages[p].content = ReturnOf(toolFunctionmap[messages[p].name])

\* The stored value of a setting, and the value a request carries for it:
\* a key the request does not have is carried as undefined.
StoredValue(key) == IF key = "temperature" THEN temperature ELSE max_tokens

CarriedValue(payload, key) == IF key \in DOMAIN payload THEN payload[key] ELSE Undefined

\* C34: the request a run call builds, of either kind, carries the stored
\* temperature and the stored token limit, for every one of them the options
\* of the call do not hold.
C34_RequestCarriesStoredSettings ==
  [][\A modelOptions \in Options :
       (RunPrompt(modelOptions) \/ RunPromptStream(modelOptions)) =>
         \A key \in StoredFields \ DOMAIN modelOptions :
           CarriedValue(request', key) = StoredValue(key)]_vars

\* C35: an instance of a subclass holds the transcript the plain class holds
\* after the same calls, and the messages observable has that transcript as
\* its value: after setMessages(seq) both are seq, after a series of appends
\* both are the transcript the series started from followed by the messages
\* appended, after a runPrompt both are the transcript of the call followed
\* by the reply.
C35_AdapterHoldsPlainTranscript ==
  subclass # Plain =>
    /\ obs.hand.op = "set" =>
         messages = obs.hand.set /\ obs.published = obs.hand.set
    /\ obs.hand.op = "append" =>
         /\ messages = obs.hand.base \o obs.hand.appended
         /\ obs.published = obs.hand.base \o obs.hand.appended
    /\ PromptReturned =>
         /\ messages = obs.before \o lastResponse.choices
         /\ obs.published = obs.before \o lastResponse.choices

\* total += delta in the callback of the subclass: a string is added as it
\* is, the sentinel undefined is added as the text "undefined".
AddedAsText(delta) == IF delta = Undefined THEN "undefined" ELSE delta.delta

\* The value of the running-concatenation observable once the callback of
\* the subclass has received the values of sink.
RECURSIVE StreamConcated(_)
StreamConcated(sink) ==
  IF sink = << >> THEN ""
  ELSE StreamConcated(SubSeq(sink, 1, Len(sink) - 1)) \o AddedAsText(sink[Len(sink)])

\* The fragments among the values of sink, put together in order.
RECURSIVE FragmentsOf(_)
FragmentsOf(sink) ==
  IF sink = << >> THEN ""
  ELSE IF Head(sink) = Undefined THEN FragmentsOf(Tail(sink))
  ELSE Head(sink).delta \o FragmentsOf(Tail(sink))

\* C36: every value the running-concatenation observable of a subclass took
\* during a runPromptStream call, from the opening of the stream to its
\* end-of-stream notification, is the fragments delivered up to then put
\* together.
C36_ConcatedIsFragmentsSoFar ==
  subclass # Plain =>
    \A i \in 1..Len(obs.sink) :
      StreamConcated(SubSeq(obs.sink, 1, i)) = FragmentsOf(SubSeq(obs.sink, 1, i))

\* A runPromptStream call has been rejected and its caller is about to resume.
StreamRejected == AtReturn /\ settled.kind = "stream" /\ settled.how = "rejected"

\* C37: when a runPromptStream call is rejected, by an error of the fragment
\* sequence or of its opening, no assistant message was appended, and the
\* completions received and the last response are those the call found.
C37_StreamErrorLeavesResults ==
  StreamRejected =>
    /\ AssistantAppended = << >>
    /\ messages = obs.before
    /\ receivedCompletions = obs.held.completions
    /\ lastResponse = obs.held.last

\* An earlier stream completed; the stream of the second call raised an error
\* after a fragment.
C37_Witness ==
  /\ StreamRejected
  /\ obs.calls = 2
  /\ obs.chunks # << >>
  /\ Len(receivedCompletions) = 1
  /\ lastResponse = receivedCompletions[1]

\* C38: when a runPrompt call is rejected because its transport request
\* failed, the usage counters, the completions received and the last response
\* are those the call found, the flag is false, and nothing else the call
\* works on has changed: the transcript is the one the call was made with.
C38_FailedPromptChangesFlagOnly ==
  PromptRejected =>
    /\ threadCount = obs.held.counters
    /\ receivedCompletions = obs.held.completions
    /\ lastResponse = obs.held.last
    /\ needsToolRun = FALSE
    /\ messages = obs.before

\* C39: a fromJSON that returns the error outcome for a string with a key
\* that is no field of the instance leaves every field of the instance as it
\* was, the fields whose keys the string has before that key included.
C39_FailedRestoreChangesNothing ==
  [][FromJSONForeign =>
       UNCHANGED << messages, tools, toolFunctionmap, streamAbortController,
                    threadCount, receivedCompletions, lastResponse, needsToolRun,
                    temperature, max_tokens >>]_vars

====
